---- MODULE Spec2Model ----
(***************************************************************************)
(* Model of resources/util/camera-angle-analysis.py: the script that sums, *)
(* per slice of relative bearing, the time a robot spends with AprilTags   *)
(* at that bearing, and shades one wedge per slice.                        *)
(*                                                                         *)
(* Angles are integers in quarter degrees (Radians(d) is d degrees).  The  *)
(* script works on doubles, which resolve values next to zero far more     *)
(* finely than values next to 2*pi: a heading such as 1e-17 rad is a       *)
(* double of its own, but -1e-17 + 2*pi is the double 2*pi.  One model     *)
(* unit stands for such a magnitude, and RoundDouble drops it from every   *)
(* result that is a whole degree or more away from zero.  Timestamps are   *)
(* whole seconds and do not decrease within a trajectory file.  Marker and *)
(* robot positions are chosen so that a marker never sits on the robot and *)
(* every bearing is a multiple of 45 degrees.                              *)
(***************************************************************************)
EXTENDS Integers, Sequences, FiniteSets, TLC

(* ---------------------------- bounds ---------------------------------- *)
MaxTags == 1
MaxTraj == 2
MaxSamples == 2

(* ---------------------------- arithmetic ------------------------------ *)
Abs(v) == IF v < 0 THEN -v ELSE v

(* math.radians: d degrees in model units.                                 *)
Radians(d) == 4 * d

(* math.pi * 2 (line 60), which is also math.radians(360) (line 36).       *)
TwoPi == Radians(360)

(* The double nearest to v: below one degree every model unit is kept, at  *)
(* one degree and beyond the result is the nearest whole degree.           *)
RoundDouble(v) ==
    IF Abs(v) < Radians(1) THEN v
    ELSE ((v + Radians(1) \div 2) \div Radians(1)) * Radians(1)

(* Rotation2d.radians() of a rotation built from a cosine and a sine: the  *)
(* angle brought into (-180, 180] degrees.                                 *)
Wrap(v) ==
    LET m == v % TwoPi
    IN  IF m > Radians(180) THEN m - TwoPi ELSE m

(* Rotation2d a - b (lines 53 and 58).                                     *)
RotationMinus(a, b) == RoundDouble(Wrap(a - b))

(* Translation2d.angle() (line 50): atan2(dy, dx) on the eight directions  *)
(* the inputs produce.                                                     *)
TranslationAngle(dx, dy) ==
    CASE dy = 0 /\ dx > 0 -> Radians(0)
      [] dx > 0 /\ dy = dx -> Radians(45)
      [] dx = 0 /\ dy > 0 -> Radians(90)
      [] dx < 0 /\ dy = -dx -> Radians(135)
      [] dy = 0 /\ dx < 0 -> Radians(180)
      [] dx < 0 /\ dy = dx -> Radians(-135)
      [] dx = 0 /\ dy < 0 -> Radians(-90)
      [] dx > 0 /\ dy = -dx -> Radians(-45)

(* The whole-degree slice sizes s for which the double quotient            *)
(* math.radians(360) / math.radians(s) is just below the whole number      *)
(* 360 / s, so that math.floor returns one less (IEEE-754 evaluation:      *)
(* 119, 59, 29 and 14 for s = 3, 6, 12 and 24).                            *)
RadiansQuotientRoundsDown == {3, 6, 12, 24}

(* math.floor(a / math.radians(s)) (lines 36 and 61).                      *)
FloorOfQuotient(a, s) ==
    IF a = TwoPi /\ s \in RadiansQuotientRoundsDown
    THEN a \div Radians(s) - 1
    ELSE a \div Radians(s)

RECURSIVE SumSeq(_)
SumSeq(s) == IF s = <<>> THEN 0 ELSE Head(s) + SumSeq(Tail(s))

RECURSIVE MaxSeq(_)
MaxSeq(s) ==
    IF Len(s) = 1 THEN s[1]
    ELSE LET m == MaxSeq(Tail(s)) IN IF s[1] > m THEN s[1] ELSE m

(* ---------------------------- inputs ---------------------------------- *)
(* sample_json["t"]; --slice; the markers of the layout file; the poses of *)
(* the samples.  The third heading is the one model unit next to zero; the *)
(* last is the double math.radians(-90), which lies one such magnitude     *)
(* nearer to zero than the quarter turn that atan2 gives the bearing from  *)
(* (1, 1) to (1, 0).                                                       *)
Timestamps == {0, 1}

SliceSet == {10, 24, 30, 50, 400}

TagPoseSet ==
    { [x |-> 1, y |-> 0, rot |-> Radians(180)],
      [x |-> 1, y |-> 0, rot |-> Radians(90)],
      [x |-> 1, y |-> 0, rot |-> Radians(0)] }

SamplePoseSet ==
    { [x |-> 0, y |-> 0, rot |-> Radians(0)],
      [x |-> 0, y |-> 0, rot |-> Radians(1)],
      [x |-> 0, y |-> 0, rot |-> 1],
      [x |-> 0, y |-> 0, rot |-> Radians(180)],
      [x |-> 1, y |-> 1, rot |-> Radians(-90) + 1] }

TagLists == UNION { [1..n -> TagPoseSet] : n \in 0..MaxTags }

(* ---------------------------- state ----------------------------------- *)
VARIABLES
    slice, tag_poses, total_tag_secs,
    traj_count, times, last_time, sample_pose, dt,
    tag_index, robot_to_tag_rotation, rotation_diff, rotation_value,
    result_index,
    max_tag_secs, wedges, shown, error, pc,
    unskipped_secs, kept_secs

vars ==
    << slice, tag_poses, total_tag_secs,
       traj_count, times, last_time, sample_pose, dt,
       tag_index, robot_to_tag_rotation, rotation_diff, rotation_value,
       result_index,
       max_tag_secs, wedges, shown, error, pc,
       unskipped_secs, kept_secs >>

loopVars ==
    << sample_pose, dt, tag_index, robot_to_tag_rotation, rotation_diff,
       rotation_value, result_index >>

plotVars == << max_tag_secs, wedges, shown, error >>

(* History of the run: the elapsed time of the pairs that passed line 54,  *)
(* and of those among them whose index passed line 62.                     *)
ghostVars == << unskipped_secs, kept_secs >>

Init ==
    /\ slice \in SliceSet
    /\ tag_poses \in TagLists
    /\ total_tag_secs = <<>>
    /\ traj_count = 0
    /\ times = <<>>
    /\ last_time = 0
    /\ sample_pose = [x |-> 0, y |-> 0, rot |-> 0]
    /\ dt = 0
    /\ tag_index = 1
    /\ robot_to_tag_rotation = 0
    /\ rotation_diff = 0
    /\ rotation_value = 0
    /\ result_index = 0
    /\ max_tag_secs = 0
    /\ wedges = 0
    /\ shown = FALSE
    /\ error = "none"
    /\ pc = "init"
    /\ unskipped_secs = 0
    /\ kept_secs = 0

(* ---------------------------- the script ------------------------------ *)
NumBuckets(s) == FloorOfQuotient(Radians(360), s)

InitResults ==
    /\ pc = "init"
    /\ total_tag_secs' = [i \in 1..NumBuckets(slice) |-> 0]
    /\ pc' = "traj"
    /\ UNCHANGED << slice, tag_poses, traj_count, times, last_time,
                    loopVars, plotVars, ghostVars >>

(* Line 42 of the script; KeepLastTime is the same line hoisted out of the  *)
(* trajectory loop.                                                        *)
KeepLastTime(last) == last

ResetLastTime(last) == 0

StartTraj ==
    /\ pc = "traj"
    /\ traj_count < MaxTraj
    /\ traj_count' = traj_count + 1
    /\ last_time' = ResetLastTime(last_time)
    /\ times' = <<>>
    /\ pc' = "sample"
    /\ UNCHANGED << slice, tag_poses, total_tag_secs, loopVars, plotVars,
                    ghostVars >>

ElapsedTime(t, last) == t - last

ReadSample ==
    /\ pc = "sample"
    /\ Len(times) < MaxSamples
    /\ \E pose \in SamplePoseSet, t \in {u \in Timestamps : u >= last_time} :
          /\ sample_pose' = pose
          /\ dt' = ElapsedTime(t, last_time)
          /\ last_time' = t
          /\ times' = Append(times, t)
    /\ tag_index' = 1
    /\ pc' = "tag"
    /\ UNCHANGED << slice, tag_poses, total_tag_secs, traj_count,
                    robot_to_tag_rotation, rotation_diff, rotation_value,
                    result_index, plotVars, ghostVars >>

RobotToTagRotation(tag, sample) ==
    TranslationAngle(tag.x - sample.x, tag.y - sample.y)

RotationDiff(tag, sample) ==
    RotationMinus(tag.rot, RobotToTagRotation(tag, sample))

(* Line 54 of the script; the two variants compare with <= and with >.     *)
ShouldSkipInclusive(diff) == Abs(diff) <= Radians(90)

ShouldSkipInverted(diff) == Abs(diff) > Radians(90)

ShouldSkip(diff) == Abs(diff) < Radians(90)

(* Lines 59-60 of the script; NormalizeNever leaves a negative value as it *)
(* is.                                                                     *)
NormalizeNever(v) == v

Normalize(v) == IF v < 0 THEN RoundDouble(v + TwoPi) ELSE v

RotationValue(tag, sample) ==
    Normalize(RotationMinus(RobotToTagRotation(tag, sample), sample.rot))

(* Line 61 of the script; ResultIndexCeil counts slices from one,          *)
(* ResultIndexRounded rounds the quotient to the nearest whole number.     *)
ResultIndexCeil(v, s) == FloorOfQuotient(v, s) + 1

ResultIndexRounded(v, s) == FloorOfQuotient(v + Radians(s) \div 2, s)

ResultIndex(v, s) == FloorOfQuotient(v, s)

(* Lines 62-63 of the script; AccumulateOverwrite assigns instead of       *)
(* adding, AccumulateClamp puts an out-of-range index in the last bucket.  *)
AccumulateOverwrite(total, idx, d) ==
    IF idx < Len(total)
    THEN [total EXCEPT ![idx + 1] = d]
    ELSE total

AccumulateClamp(total, idx, d) ==
    IF idx < Len(total)
    THEN [total EXCEPT ![idx + 1] = @ + d]
    ELSE IF Len(total) > 0
         THEN [total EXCEPT ![Len(total)] = @ + d]
         ELSE total

Accumulate(total, idx, d) ==
    IF idx < Len(total)
    THEN [total EXCEPT ![idx + 1] = @ + d]
    ELSE total

ProcessTag ==
    /\ pc = "tag"
    /\ tag_index <= Len(tag_poses)
    /\ LET tag_pose == tag_poses[tag_index]
           diff == RotationDiff(tag_pose, sample_pose)
           value == RotationValue(tag_pose, sample_pose)
           idx == ResultIndex(value, slice)
       IN  /\ robot_to_tag_rotation' = RobotToTagRotation(tag_pose, sample_pose)
           /\ rotation_diff' = diff
           /\ IF ShouldSkip(diff)
              THEN UNCHANGED << rotation_value, result_index, total_tag_secs,
                                ghostVars >>
              ELSE /\ rotation_value' = value
                   /\ result_index' = idx
                   /\ total_tag_secs' = Accumulate(total_tag_secs, idx, dt)
                   /\ unskipped_secs' = unskipped_secs + dt
                   /\ kept_secs' = IF idx < Len(total_tag_secs)
                                   THEN kept_secs + dt ELSE kept_secs
    /\ tag_index' = tag_index + 1
    /\ UNCHANGED << slice, tag_poses, traj_count, times, last_time,
                    sample_pose, dt, plotVars, pc >>

EndTags ==
    /\ pc = "tag"
    /\ tag_index > Len(tag_poses)
    /\ pc' = "sample"
    /\ UNCHANGED << slice, tag_poses, total_tag_secs, traj_count, times,
                    last_time, loopVars, plotVars, ghostVars >>

EndSamples ==
    /\ pc = "sample"
    /\ pc' = "traj"
    /\ UNCHANGED << slice, tag_poses, total_tag_secs, traj_count, times,
                    last_time, loopVars, plotVars, ghostVars >>

ComputeMax ==
    /\ pc = "traj"
    /\ IF Len(total_tag_secs) = 0
       THEN /\ error' = "ValueError"
            /\ pc' = "done"
            /\ UNCHANGED max_tag_secs
       ELSE /\ max_tag_secs' = MaxSeq(total_tag_secs)
            /\ pc' = "wedge"
            /\ UNCHANGED error
    /\ UNCHANGED << slice, tag_poses, total_tag_secs, traj_count, times,
                    last_time, loopVars, wedges, shown, ghostVars >>

(* Line 78 of the script divides by max_tag_secs; ShadeNeverRaises is a    *)
(* division guarded against zero.                                          *)
ShadeNeverRaises(max) == FALSE

ShadeRaises(max) == max = 0

AddWedge ==
    /\ pc = "wedge"
    /\ wedges < Len(total_tag_secs)
    /\ IF ShadeRaises(max_tag_secs)
       THEN /\ error' = "ZeroDivisionError"
            /\ pc' = "done"
            /\ UNCHANGED wedges
       ELSE /\ wedges' = wedges + 1
            /\ UNCHANGED << error, pc >>
    /\ UNCHANGED << slice, tag_poses, total_tag_secs, traj_count, times,
                    last_time, loopVars, max_tag_secs, shown, ghostVars >>

ShowPlot ==
    /\ pc = "wedge"
    /\ wedges = Len(total_tag_secs)
    /\ shown' = TRUE
    /\ pc' = "done"
    /\ UNCHANGED << slice, tag_poses, total_tag_secs, traj_count, times,
                    last_time, loopVars, max_tag_secs, wedges, error,
                    ghostVars >>

Next ==
    \/ InitResults
    \/ StartTraj
    \/ ReadSample
    \/ ProcessTag
    \/ EndTags
    \/ EndSamples
    \/ ComputeMax
    \/ AddWedge
    \/ ShowPlot

Spec == Init /\ [][Next]_vars

TypeOK ==
    /\ slice \in SliceSet
    /\ pc \in {"init", "traj", "sample", "tag", "wedge", "done"}
    /\ error \in {"none", "ValueError", "ZeroDivisionError"}
    /\ traj_count \in 0..MaxTraj
    /\ Len(times) <= MaxSamples

(* ---------------------------- claims ---------------------------------- *)
PairPending == pc = "tag" /\ tag_index <= Len(tag_poses)

CurTag == tag_poses[tag_index]

PairDone == pc = "tag" /\ tag_index > 1

LastTag == tag_poses[tag_index - 1]

PairPassed == PairDone /\ ~ShouldSkip(rotation_diff)

AllZero(total) == \A i \in 1..Len(total) : total[i] = 0

(* C1 as stated: after the first trajectory the accumulators sum to the    *)
(* elapsed time of every pair the hemisphere test let through, whatever    *)
(* the slice size.                                                         *)
C1_SumOfUnskipped ==
    (pc = "traj" /\ traj_count = 1) => SumSeq(total_tag_secs) = unskipped_secs

(* C1 amended: the accumulators always sum to the elapsed time of the      *)
(* pairs that passed the hemisphere test and whose index was below the     *)
(* bucket count; the time of a pair with a larger index is in no bucket.   *)
C1_SumOfKept ==
    /\ pc # "init" => SumSeq(total_tag_secs) = kept_secs
    /\ kept_secs <= unskipped_secs

C1_Witness ==
    /\ pc = "traj"
    /\ traj_count >= 1
    /\ kept_secs > 0
    /\ unskipped_secs > kept_secs

FlippedDiff == RotationMinus(LastTag.rot + Radians(180), robot_to_tag_rotation)

(* C2 as stated: a pair is skipped with marker heading h exactly when it   *)
(* is not skipped with heading h + 180 degrees, the 90 degree case         *)
(* included.                                                               *)
C2_Symmetric ==
    PairDone => (ShouldSkip(rotation_diff) <=> ~ShouldSkip(FlippedDiff))

(* C2 amended: the equivalence holds whenever marker heading and bearing   *)
(* do not differ by exactly 90 degrees; at exactly 90 degrees the pair is  *)
(* skipped with neither heading.                                           *)
C2_SymmetricOffBoundary ==
    PairDone =>
        IF Abs(rotation_diff) = Radians(90)
        THEN ~ShouldSkip(rotation_diff) /\ ~ShouldSkip(FlippedDiff)
        ELSE ShouldSkip(rotation_diff) <=> ~ShouldSkip(FlippedDiff)

C2_Witness ==
    /\ PairDone
    /\ Abs(rotation_diff) = Radians(90)
    /\ Abs(FlippedDiff) = Radians(90)
    /\ dt > 0
    /\ unskipped_secs > 0

(* C3 as stated: for a pair that is not skipped the normalized relative    *)
(* bearing is at least 0 and below a full turn when the index is taken,    *)
(* and the index is not negative.                                          *)
C3_HalfOpen ==
    PairPassed =>
        /\ 0 <= rotation_value
        /\ rotation_value < TwoPi
        /\ result_index >= 0

(* C3 amended: for a pair that is not skipped the normalized relative      *)
(* bearing is at least 0 and at most a full turn (the full turn itself     *)
(* when the addition absorbs a negative difference), and the index is not  *)
(* negative.                                                               *)
C3_Closed ==
    PairPassed =>
        /\ 0 <= rotation_value
        /\ rotation_value <= TwoPi
        /\ result_index >= 0

C3_Witness ==
    /\ PairPassed
    /\ rotation_value = TwoPi
    /\ result_index >= Len(total_tag_secs)
    /\ Len(total_tag_secs) > 0

(* C4 as stated: there are floor(360 / slice) accumulators, all zero       *)
(* before the first trajectory, and their number does not change.          *)
C4_BucketCount ==
    pc # "init" =>
        /\ Len(total_tag_secs) = 360 \div slice
        /\ traj_count = 0 => AllZero(total_tag_secs)

DirectlyAhead(tag, sample) ==
    RotationMinus(RobotToTagRotation(tag, sample), sample.rot) = 0

(* C5 as stated: for a marker directly ahead of the robot whose heading    *)
(* matches the robot's, the elapsed time is added to bucket 0.             *)
C5_AheadBucketZero ==
    [][ (PairPending /\ DirectlyAhead(CurTag, sample_pose)
            /\ CurTag.rot = sample_pose.rot)
        => (/\ Len(total_tag_secs) >= 1
            /\ total_tag_secs'[1] = total_tag_secs[1] + dt) ]_vars

(* C5 amended: for a marker directly ahead of the robot (computed relative *)
(* bearing exactly 0) that passes the hemisphere test, the elapsed time is *)
(* added to bucket 0 and to no other, provided there is a bucket.          *)
C5_AheadPassedBucketZero ==
    [][ (PairPending /\ DirectlyAhead(CurTag, sample_pose)
            /\ Abs(RotationDiff(CurTag, sample_pose)) >= Radians(90)
            /\ Len(total_tag_secs) >= 1)
        => total_tag_secs' = [total_tag_secs EXCEPT ![1] = @ + dt] ]_vars

C5_Witness ==
    /\ PairPassed
    /\ DirectlyAhead(LastTag, sample_pose)
    /\ dt > 0
    /\ Len(total_tag_secs) >= 1
    /\ total_tag_secs[1] = kept_secs
    /\ kept_secs > 0

(* C6 as stated: a pair adds time to a bucket only if the bearing from the *)
(* robot to the marker is within 90 degrees of the robot's heading.        *)
C6_RobotHemisphere ==
    [][ (PairPending /\ total_tag_secs' # total_tag_secs)
        => Abs(Wrap(RobotToTagRotation(CurTag, sample_pose) - sample_pose.rot))
              <= Radians(90) ]_vars

(* C6 amended: a pair adds time to a bucket only if the marker's own       *)
(* heading is 90 degrees or more away from the bearing from the robot to   *)
(* the marker; the robot's heading takes no part in the test.              *)
C6_MarkerHemisphere ==
    [][ (PairPending /\ total_tag_secs' # total_tag_secs)
        => Abs(Wrap(CurTag.rot - RobotToTagRotation(CurTag, sample_pose)))
              >= Radians(90) ]_vars

C6_Witness ==
    /\ PairPassed
    /\ dt > 0
    /\ result_index < Len(total_tag_secs)
    /\ total_tag_secs[result_index + 1] > 0
    /\ Abs(Wrap(robot_to_tag_rotation - sample_pose.rot)) > Radians(90)

(* C7 as stated: whenever every accumulator is zero when processing ends,  *)
(* rendering stops with a division by zero at the shading step, no wedge   *)
(* drawn and no plot shown.                                                *)
C7_ZeroDivision ==
    (pc = "done" /\ AllZero(total_tag_secs)) =>
        /\ error = "ZeroDivisionError"
        /\ wedges = 0
        /\ ~shown

(* C7 amended: whenever every accumulator is zero when processing ends and *)
(* there is at least one accumulator, rendering stops with a division by   *)
(* zero at the shading step, no wedge drawn and no plot shown; with no     *)
(* accumulator at all it stops one step earlier, at the maximum, with a    *)
(* ValueError.                                                             *)
C7_ZeroDivisionOrEmpty ==
    (pc = "done" /\ AllZero(total_tag_secs)) =>
        /\ error = IF Len(total_tag_secs) = 0
                   THEN "ValueError" ELSE "ZeroDivisionError"
        /\ wedges = 0
        /\ ~shown

C7_Witness ==
    /\ pc = "done"
    /\ Len(total_tag_secs) >= 1
    /\ AllZero(total_tag_secs)
    /\ error = "ZeroDivisionError"
    /\ traj_count >= 1
    /\ unskipped_secs > 0

(* C8: the elapsed time of a sample is its timestamp minus that of the     *)
(* previous sample of the same trajectory, and the timestamp itself for    *)
(* the first sample of every trajectory; samples at t=0 and t=1 of a       *)
(* first trajectory with one marker that passes at relative bearing 0      *)
(* leave bucket 0 at exactly 1.                                            *)
C8_ElapsedTime ==
    /\ pc = "tag" =>
          /\ last_time = times[Len(times)]
          /\ dt = times[Len(times)]
                  - (IF Len(times) = 1 THEN 0 ELSE times[Len(times) - 1])
    /\ (/\ PairPassed
        /\ traj_count = 1
        /\ times = <<0, 1>>
        /\ Len(tag_poses) = 1
        /\ rotation_value = 0
        /\ Len(total_tag_secs) >= 1)
       => total_tag_secs[1] = 1

C8_Witness ==
    /\ PairPassed
    /\ traj_count = 2
    /\ Len(times) = 1
    /\ dt = 1
    /\ rotation_value = 0
    /\ Len(total_tag_secs) >= 1
    /\ total_tag_secs[1] = 2

(* C9: processing one pair changes at most one accumulator: a pair that    *)
(* passes with an index below the bucket count adds dt to that accumulator *)
(* alone; a skipped pair or one with a larger index changes none and       *)
(* raises no error; no other step before rendering changes an accumulator. *)
C9_OneBucket ==
    [][ /\ PairPending =>
            /\ Len(total_tag_secs') = Len(total_tag_secs)
            /\ error' = "none"
            /\ IF ~ShouldSkip(rotation_diff')
                  /\ rotation_value' \div Radians(slice) < Len(total_tag_secs)
               THEN total_tag_secs' =
                       [total_tag_secs EXCEPT
                           ![rotation_value' \div Radians(slice) + 1] = @ + dt]
               ELSE total_tag_secs' = total_tag_secs
        /\ (pc # "init" /\ ~PairPending) => total_tag_secs' = total_tag_secs
      ]_vars

C9_Witness ==
    /\ PairPassed
    /\ result_index >= Len(total_tag_secs)
    /\ dt > 0
    /\ traj_count = 2
    /\ SumSeq(total_tag_secs) > 0

(* C10 as stated: when the slice size divides 360 every pair that passes   *)
(* has an index below the bucket count, and a contribution is dropped only *)
(* when the buckets leave a remainder of the circle uncovered and the      *)
(* relative bearing falls in it.                                           *)
C10_DroppedOnlyInRemainder ==
    PairPassed =>
        /\ 360 % slice = 0 => result_index < Len(total_tag_secs)
        /\ result_index >= Len(total_tag_secs) =>
              /\ (360 \div slice) * slice < 360
              /\ rotation_value >= Radians((360 \div slice) * slice)
              /\ rotation_value < TwoPi

(* C10 amended: a contribution is dropped exactly when the normalized      *)
(* relative bearing is at or beyond the angle the buckets cover (bucket    *)
(* count times slice); that is either inside a part of the circle the      *)
(* buckets leave uncovered or exactly a full turn, and the full turn       *)
(* occurs also when the slice size divides 360.                            *)
C10_DroppedBeyondBuckets ==
    PairPassed =>
        /\ result_index >= Len(total_tag_secs)
              <=> rotation_value >= Radians(slice) * Len(total_tag_secs)
        /\ result_index >= Len(total_tag_secs) =>
              \/ rotation_value = TwoPi
              \/ Len(total_tag_secs) * slice < 360

C10_Witness ==
    /\ PairPassed
    /\ 360 % slice = 0
    /\ Len(total_tag_secs) = 360 \div slice
    /\ result_index >= Len(total_tag_secs)
    /\ dt > 0
    /\ unskipped_secs > kept_secs
====
